---- MODULE Spec2Model ----
(***************************************************************************)
(* The crawl - diff - notify pipeline of the real-estate scraper:          *)
(*   BaseScraper.scrape            src/scrapers/base_scraper.py            *)
(*   DatabaseManager               src/database_manager.py                 *)
(*   NotificationManager (queue)   src/scraper/common/notification_manager.py *)
(*   main                          src/scrapers/main.py                    *)
(***************************************************************************)
EXTENDS Integers, Sequences, FiniteSets, TLC

VARIABLES
    clock,          \* the wall clock (UTC), in ticks
    tz,             \* offset of the host's local time to UTC, in ticks
    listings,       \* table listings: the sequence of its rows, by id
    to_run,         \* main: the scrapers still to run in this run
    pc,             \* position of the control: "idle", "page", "items",
                    \* "done"; "crashed": ended by an uncaught exception
    site,           \* scrape: self.site_name
    page,           \* scrape: page
    summaries,      \* scrape: the summaries of the page still to process
    has_next,       \* scrape: has_next_page of the page
    processed,      \* scrape: processed_properties_data (the urls)
    webhook_url,    \* NotificationManager.webhook_url (TRUE: configured)
    queue,          \* NotificationManager.notification_queue
    last_sent,      \* NotificationManager.last_notification_time
    requested,      \* history: the pages requested by the current scrape
    fetched,        \* history: number of summaries of the page last fetched
    handled,        \* history: loop iterations run on the page last fetched
    last,           \* history: what the last loop iteration did
    news,           \* history: the urls that took the insert path
    delivered,      \* history: the notifications the sink accepted
    enqueued,       \* history: the items appended to the queue in this run
    merge,          \* history: summary and detail map of the last merge
    other,          \* a second run of the program on the same database
    mode            \* main: "all" scrapers in a loop, or a "single" one

vars == <<clock, tz, listings, to_run, pc, site, page, summaries,
          has_next, processed, webhook_url, queue, last_sent, requested,
          fetched, handled, last, news, delivered, enqueued, merge, other,
          mode>>

(***************************************************************************)
(* Bounds of the model.                                                    *)
(***************************************************************************)
MaxClock == 3
MaxQueue == 2
TicksPerSecond == 2
MaxSends == 3

(***************************************************************************)
(* Program constants.                                                      *)
(***************************************************************************)
MAX_PAGES == 5
MIN_NOTIFICATION_INTERVAL == 1

(***************************************************************************)
(* Python values: None, str, int and float (integral), with the text       *)
(* str() gives and the number a numeric value denotes.                     *)
(***************************************************************************)
None == [ty |-> "none", s |-> "None", n |-> 0]
PyStr(x) == [ty |-> "str", s |-> x, n |-> 0]
PyInt(k) == [ty |-> "int", s |-> ToString(k), n |-> k]
PyFloat(k) == [ty |-> "float", s |-> ToString(k) \o ".0", n |-> k]

IsNum(v) == v.ty \in {"int", "float"}

\* a == b in Python: numbers by value, everything else by type and text
PyEq(a, b) ==
    IF IsNum(a) /\ IsNum(b) THEN a.n = b.n
    ELSE a.ty = b.ty /\ a.s = b.s

\* bool(v): None, "" and 0 are false
Truthy(v) ==
    CASE v.ty = "none" -> FALSE
      [] v.ty = "str" -> v.s # ""
      [] OTHER -> v.n # 0

\* dict.get(key): the value, None when the key is missing
Get(m, k) == IF k \in DOMAIN m THEN m[k] ELSE None

\* the digits of the decimal texts the model's extractor produces
DecimalTexts == {"0", "5", "7", "295", "300"}

DecimalValue(s) ==
    CASE s = "0" -> 0
      [] s = "5" -> 5
      [] s = "7" -> 7
      [] s = "295" -> 295
      [] s = "300" -> 300

\* int(v) raises ValueError / TypeError
IntRaises(v) ==
    \/ v.ty = "none"
    \/ v.ty = "str" /\ v.s \notin DecimalTexts

\* int(v) where it does not raise
IntOf(v) == IF v.ty = "str" THEN PyInt(DecimalValue(v.s)) ELSE PyInt(v.n)

\* str(v)[:50]: the model's long texts share their first 50 characters
LongTexts == {"long description, first version",
              "long description, second version"}

StrCut(v) == IF v.s \in LongTexts THEN "long description" ELSE v.s

(***************************************************************************)
(* The clocks.  datetime.datetime.now() is the host's local time;          *)
(* SQLite's CURRENT_TIMESTAMP is UTC, in whole seconds.  Fetching a detail *)
(* page takes time (at least a tick); between two readings of a clock in   *)
(* one database call time may or may not pass.  No time passes beyond      *)
(* MaxClock; an environment with E.stop ends there.                        *)
(***************************************************************************)
Tick(c, d) == IF c + d <= MaxClock THEN c + d ELSE MaxClock

PyNow(c) == c + tz

SqlNow(c) == (c \div TicksPerSecond) * TicksPerSecond

(***************************************************************************)
(* SQLite: the column affinities of table listings, and its rows.          *)
(***************************************************************************)
\* a value stored in a TEXT column (title, price, description, ...)
TextAffinity(v) == IF IsNum(v) THEN PyStr(v.s) ELSE v

\* a value stored in an INTEGER column (image_count)
IntegerAffinity(v) ==
    CASE v.ty = "float" -> PyInt(v.n)
      [] v.ty = "str" /\ v.s \in DecimalTexts -> PyInt(DecimalValue(v.s))
      [] OTHER -> v

\* json.dumps(dict): the text of the dict; JsonLoads reads it back
PyDict(m) == [ty |-> "dict", d |-> m]

JsonDumps(m) == [json |-> m]

JsonLoads(t) == t.json

\* cursor.fetchone() of an empty result
NoRow == [id |-> 0]

RowsOf(tbl, url) == {i \in DOMAIN tbl : tbl[i].url = url}

\* DatabaseManager.get_listing_by_url: the first row of that url, or None
get_listing_by_url(tbl, url) ==
    IF RowsOf(tbl, url) = {} THEN NoRow
    ELSE tbl[CHOOSE i \in RowsOf(tbl, url) : \A j \in RowsOf(tbl, url) : i <= j]

\* the constraints of CREATE TABLE listings: url UNIQUE NOT NULL,
\* site_name NOT NULL
IntegrityError_NotUnique(tbl, row) ==
    \/ row.url.ty = "none"
    \/ row.site_name.ty = "none"

IntegrityError(tbl, row) ==
    \/ row.url.ty = "none"
    \/ row.site_name.ty = "none"
    \/ RowsOf(tbl, row.url) # {}

\* DatabaseManager.add_listing: data is the dict to insert, lu and lc the
\* two readings of datetime.now(), fs the CURRENT_TIMESTAMP default of
\* first_seen, fails a persistence error raised by the INSERT
add_listing(tbl, data, lu, lc, fs, fails) ==
    LET row == [id |-> Len(tbl) + 1,
                url |-> TextAffinity(Get(data, "url")),
                site_name |-> TextAffinity(Get(data, "site_name")),
                title |-> TextAffinity(Get(data, "title")),
                price |-> TextAffinity(Get(data, "price")),
                description |-> TextAffinity(Get(data, "description")),
                image_count |-> IntegerAffinity(Get(data, "image_count")),
                first_image_url |-> TextAffinity(Get(data, "first_image_url")),
                raw_data |-> JsonDumps(data),
                first_seen |-> fs,
                last_updated |-> lu,
                last_checked |-> lc]
    IN  IF fails \/ IntegrityError(tbl, row) THEN tbl ELSE Append(tbl, row)

direct_column_fields ==
    <<"title", "price", "description", "image_count", "first_image_url",
      "site_name">>

ColumnAffinity(field, v) ==
    IF field = "image_count" THEN IntegerAffinity(v) ELSE TextAffinity(v)

\* update_listing writing last_updated only with the changed fields
UpdatedRow_KeepsLastUpdated(row, update_data, lu, lc) ==
    [c \in DOMAIN row |->
        CASE c = "raw_data" -> JsonDumps(update_data)
          [] c = "last_updated" ->
               IF DOMAIN update_data = {"raw_data"} THEN row[c] ELSE lu
          [] c = "last_checked" -> lc
          [] c \in DOMAIN update_data /\
             (\E i \in DOMAIN direct_column_fields : direct_column_fields[i] = c)
               -> ColumnAffinity(c, update_data[c])
          [] OTHER -> row[c]]

\* the SET clauses of update_listing applied to one row
UpdatedRow(row, update_data, lu, lc) ==
    [c \in DOMAIN row |->
        CASE c = "raw_data" -> JsonDumps(update_data)
          [] c = "last_updated" -> lu
          [] c = "last_checked" -> lc
          [] c \in DOMAIN update_data /\
             (\E i \in DOMAIN direct_column_fields : direct_column_fields[i] = c)
               -> ColumnAffinity(c, update_data[c])
          [] OTHER -> row[c]]

\* DatabaseManager.update_listing
update_listing(tbl, url, update_data, lu, lc, fails) ==
    IF fails THEN tbl
    ELSE [i \in DOMAIN tbl |->
            IF tbl[i].url = url THEN UpdatedRow(tbl[i], update_data, lu, lc)
            ELSE tbl[i]]

\* update_last_checked writing last_updated as well
update_last_checked_SetsLastUpdated(tbl, url, lc, fails) ==
    IF fails THEN tbl
    ELSE [i \in DOMAIN tbl |->
            IF tbl[i].url = url
            THEN [tbl[i] EXCEPT !.last_checked = lc, !.last_updated = lc]
            ELSE tbl[i]]

\* update_last_checked writing first_seen as well
update_last_checked_SetsFirstSeen(tbl, url, lc, fails) ==
    IF fails THEN tbl
    ELSE [i \in DOMAIN tbl |->
            IF tbl[i].url = url
            THEN [tbl[i] EXCEPT !.last_checked = lc, !.first_seen = lc]
            ELSE tbl[i]]

\* DatabaseManager.update_last_checked
update_last_checked(tbl, url, lc, fails) ==
    IF fails THEN tbl
    ELSE [i \in DOMAIN tbl |->
            IF tbl[i].url = url THEN [tbl[i] EXCEPT !.last_checked = lc]
            ELSE tbl[i]]

(***************************************************************************)
(* config.py                                                               *)
(***************************************************************************)
TRACKED_FIELDS_FOR_NOTIFICATION == <<"price", "description", "image_count">>

InSeq(x, sq) == \E i \in DOMAIN sq : sq[i] = x

(***************************************************************************)
(* NotificationManager (src/scraper/common/notification_manager.py).       *)
(* A notifier state is [queue, last_sent] with three histories:            *)
(* delivered, what the sink accepted; enq, what the current call appended  *)
(* to the queue; posts, the calls of requests.post the current call made.  *)
(* last_sent is [set |-> FALSE] for None.  The 'timestamp' of a queued     *)
(* item is never read and is left out.                                     *)
(***************************************************************************)
NoEmbed == [kind |-> "None"]

NoTime == [set |-> FALSE, at |-> 0]

\* format_new_listing_embed
format_new_listing_embed(listing_data) ==
    [kind |-> "New",
     url |-> Get(listing_data, "url"),
     title |-> Get(listing_data, "title"),
     site |-> Get(listing_data, "site_name"),
     changes |-> <<>>]

\* format_updated_listing_embed: the changes whose two texts differ; no
\* embed when there is none
format_updated_listing_embed(listing_data, changes) ==
    LET real_changes == SelectSeq(changes, LAMBDA ch : ch[2] # ch[3])
    IN  IF real_changes = <<>> THEN NoEmbed
        ELSE [kind |-> "Updated",
              url |-> Get(listing_data, "url"),
              title |-> Get(listing_data, "title"),
              site |-> Get(listing_data, "site_name"),
              changes |-> real_changes]

\* _process_queue without the test of lines 38-40
TooEarly_Never(ns, current_time) == FALSE

\* the rate limit of _process_queue: too early to send at current_time
TooEarly(ns, current_time) ==
    /\ ns.last_sent.set
    /\ current_time - ns.last_sent.at
         < MIN_NOTIFICATION_INTERVAL * TicksPerSecond

\* _process_queue appending the failed notification instead of inserting
\* it at index 0
process_queue_RequeuesAtTail(ns, current_time, http) ==
    IF ns.queue = <<>> THEN ns
    ELSE IF TooEarly(ns, current_time) THEN ns
    ELSE LET notification == Head(ns.queue)
             popped == [ns EXCEPT !.queue = Tail(ns.queue)]
         IN  IF notification.embed = NoEmbed /\ ~notification.has_content
             THEN popped
             ELSE IF http = "ok"
             THEN [popped EXCEPT
                     !.last_sent = [set |-> TRUE, at |-> current_time],
                     !.delivered = Append(@, [embed |-> notification.embed,
                                              at |-> current_time]),
                     !.posts = Append(@, [embed |-> notification.embed,
                                          ok |-> TRUE])]
             ELSE [popped EXCEPT
                     !.queue = Append(@, notification),
                     !.posts = Append(@, [embed |-> notification.embed,
                                          ok |-> FALSE])]

\* _process_queue without the return of lines 51-52: the empty payload
\* is posted
process_queue_PostsEmpty(ns, current_time, http) ==
    IF ns.queue = <<>> THEN ns
    ELSE IF TooEarly(ns, current_time) THEN ns
    ELSE LET notification == Head(ns.queue)
             popped == [ns EXCEPT !.queue = Tail(ns.queue)]
         IN  IF http = "ok"
             THEN [popped EXCEPT
                     !.last_sent = [set |-> TRUE, at |-> current_time],
                     !.delivered = Append(@, [embed |-> notification.embed,
                                              at |-> current_time]),
                     !.posts = Append(@, [embed |-> notification.embed,
                                          ok |-> TRUE])]
             ELSE [popped EXCEPT
                     !.queue = <<notification>> \o @,
                     !.posts = Append(@, [embed |-> notification.embed,
                                          ok |-> FALSE])]

\* _process_queue with pop() for pop(0): the newest item is taken
process_queue_PopsNewest(ns, current_time, http) ==
    IF ns.queue = <<>> THEN ns
    ELSE IF TooEarly(ns, current_time) THEN ns
    ELSE LET notification == ns.queue[Len(ns.queue)]
             popped == [ns EXCEPT
                          !.queue = SubSeq(@, 1, Len(ns.queue) - 1)]
         IN  IF notification.embed = NoEmbed /\ ~notification.has_content
             THEN popped
             ELSE IF http = "ok"
             THEN [popped EXCEPT
                     !.last_sent = [set |-> TRUE, at |-> current_time],
                     !.delivered = Append(@, [embed |-> notification.embed,
                                              at |-> current_time]),
                     !.posts = Append(@, [embed |-> notification.embed,
                                          ok |-> TRUE])]
             ELSE [popped EXCEPT
                     !.queue = <<notification>> \o @,
                     !.posts = Append(@, [embed |-> notification.embed,
                                          ok |-> FALSE])]

\* _process_queue without the except branch's insert(0, notification)
process_queue_DropsOnError(ns, current_time, http) ==
    IF ns.queue = <<>> THEN ns
    ELSE IF TooEarly(ns, current_time) THEN ns
    ELSE LET notification == Head(ns.queue)
             popped == [ns EXCEPT !.queue = Tail(ns.queue)]
         IN  IF notification.embed = NoEmbed /\ ~notification.has_content
             THEN popped
             ELSE IF http = "ok"
             THEN [popped EXCEPT
                     !.last_sent = [set |-> TRUE, at |-> current_time],
                     !.delivered = Append(@, [embed |-> notification.embed,
                                              at |-> current_time]),
                     !.posts = Append(@, [embed |-> notification.embed,
                                          ok |-> TRUE])]
             ELSE [popped EXCEPT
                     !.posts = Append(@, [embed |-> notification.embed,
                                          ok |-> FALSE])]

\* NotificationManager._process_queue; http is the outcome of
\* requests.post: "ok" or "request_error"
process_queue(ns, current_time, http) ==
    IF ns.queue = <<>> THEN ns
    ELSE IF TooEarly(ns, current_time) THEN ns
    ELSE LET notification == Head(ns.queue)
             popped == [ns EXCEPT !.queue = Tail(ns.queue)]
         IN  IF notification.embed = NoEmbed /\ ~notification.has_content
             THEN popped
             ELSE IF http = "ok"
             THEN [popped EXCEPT
                     !.last_sent = [set |-> TRUE, at |-> current_time],
                     !.delivered = Append(@, [embed |-> notification.embed,
                                              at |-> current_time]),
                     !.posts = Append(@, [embed |-> notification.embed,
                                          ok |-> TRUE])]
             ELSE [popped EXCEPT
                     !.queue = <<notification>> \o @,
                     !.posts = Append(@, [embed |-> notification.embed,
                                          ok |-> FALSE])]

\* send_notification without the return of lines 19-20
send_notification_NoCheck(ns, enabled, embed, current_time, http) ==
    LET item == [has_content |-> FALSE, embed |-> embed]
    IN  process_queue([ns EXCEPT !.queue = Append(@, item),
                                 !.enq = Append(@, item)],
                      current_time, http)

\* NotificationManager.send_notification(embed=embed); enabled is
\* bool(self.webhook_url)
send_notification(ns, enabled, embed, current_time, http) ==
    IF ~enabled THEN ns
    ELSE LET item == [has_content |-> FALSE, embed |-> embed]
         IN  process_queue([ns EXCEPT !.queue = Append(@, item),
                                      !.enq = Append(@, item)],
                           current_time, http)

(***************************************************************************)
(* BaseScraper.scrape: one iteration of the loop over the summaries.       *)
(***************************************************************************)
\* lines 120-133: summary and detail merged, url and site_name stamped,
\* the key fields defaulted
key_fields_to_default ==
    {"price", "description", "image_count", "title", "first_image_url"}

\* url and site_name put in front of the two maps instead of after them
current_listing_data_StampedFirst(summary, detailed_data, listing_url, site_name) ==
    LET merged ==
          [k \in DOMAIN summary \cup DOMAIN detailed_data
                 \cup {"url", "site_name"} |->
             CASE k \in DOMAIN detailed_data -> detailed_data[k]
               [] k \in DOMAIN summary -> summary[k]
               [] k = "url" -> listing_url
               [] OTHER -> site_name]
        defaulted ==
          [k \in DOMAIN merged \cup key_fields_to_default |->
             IF k \in DOMAIN merged THEN merged[k] ELSE None]
    IN  [defaulted EXCEPT
           !["image_count"] = IF @.ty = "none" THEN PyInt(0) ELSE @]

current_listing_data(summary, detailed_data, listing_url, site_name) ==
    LET merged ==
          [k \in DOMAIN summary \cup DOMAIN detailed_data
                 \cup {"url", "site_name"} |->
             CASE k = "url" -> listing_url
               [] k = "site_name" -> site_name
               [] k \in DOMAIN detailed_data -> detailed_data[k]
               [] OTHER -> summary[k]]
        defaulted ==
          [k \in DOMAIN merged \cup key_fields_to_default |->
             IF k \in DOMAIN merged THEN merged[k] ELSE None]
    IN  [defaulted EXCEPT
           !["image_count"] = IF @.ty = "none" THEN PyInt(0) ELSE @]

\* lines 138-147
db_insert_data(data) ==
    [k \in {"url", "site_name", "title", "price", "description",
            "image_count", "first_image_url", "raw_data"} |->
        IF k = "raw_data" THEN PyDict(data) ELSE Get(data, k)]

fields_to_check_for_update ==
    <<"title", "price", "description", "image_count", "first_image_url">>

\* lines 161-169: the two values compared for a field; image_count goes
\* through int(), and the first int() that raises ends the conversion
OldValue(field, row) ==
    IF field = "image_count" /\ row[field].ty # "none" /\ ~IntRaises(row[field])
    THEN IntOf(row[field]) ELSE row[field]

NewValue(field, row, data) ==
    LET new_value == Get(data, field)
    IN  IF /\ field = "image_count"
           /\ row[field].ty = "none" \/ ~IntRaises(row[field])
           /\ new_value.ty # "none"
           /\ ~IntRaises(new_value)
        THEN IntOf(new_value) ELSE new_value

\* line 171
Differs(field, row, data) ==
    ~PyEq(OldValue(field, row), NewValue(field, row, data))

ChangedFields(row, data) ==
    SelectSeq(fields_to_check_for_update, LAMBDA f : Differs(f, row, data))

\* the update payload with the candidate's site_name among its keys
update_payload_for_db_WithSite(row, data) ==
    [k \in {f \in key_fields_to_default :
                InSeq(f, fields_to_check_for_update) /\ Differs(f, row, data)}
           \cup {"raw_data", "site_name"} |->
        CASE k = "raw_data" -> PyDict(data)
          [] k = "site_name" -> Get(data, "site_name")
          [] OTHER -> NewValue(k, row, data)]

\* lines 155-176: update_payload_for_db
update_payload_for_db(row, data) ==
    [k \in {f \in key_fields_to_default :
                InSeq(f, fields_to_check_for_update) /\ Differs(f, row, data)}
           \cup {"raw_data"} |->
        IF k = "raw_data" THEN PyDict(data) ELSE NewValue(k, row, data)]

\* changes_for_notification without the test of line 173
changes_for_notification_Untracked(row, data) ==
    LET changed == ChangedFields(row, data)
    IN  [i \in DOMAIN changed |->
           <<changed[i], StrCut(OldValue(changed[i], row)),
             StrCut(NewValue(changed[i], row, data))>>]

\* lines 171-174: changes_for_notification
changes_for_notification(row, data) ==
    LET tracked == SelectSeq(ChangedFields(row, data),
                     LAMBDA f : InSeq(f, TRACKED_FIELDS_FOR_NOTIFICATION))
    IN  [i \in DOMAIN tracked |->
           <<tracked[i], StrCut(OldValue(tracked[i], row)),
             StrCut(NewValue(tracked[i], row, data))>>]

(***************************************************************************)
(* The extractor of the model: what the pages of a site may hold.          *)
(***************************************************************************)
SummaryOf(u) == [url |-> PyStr(u), title |-> PyStr("listing")]

SummaryNoUrl == [title |-> PyStr("listing")]

DetailA ==
    [title |-> PyStr("flat"), price |-> PyStr("300"),
     description |-> PyStr("d1"), image_count |-> PyInt(5),
     first_image_url |-> PyStr("img1")]

DetailB ==
    [DetailA EXCEPT !.title = PyStr("flat, renovated"),
                    !.price = PyStr("295")]

DetailC ==
    [DetailA EXCEPT !.description = PyStr("d2"),
                    !.image_count = PyInt(7),
                    !.first_image_url = PyStr("img2")]

\* OLX.py: the price is a float
DetailF == [DetailA EXCEPT !.price = PyFloat(300)]

\* a detail map with keys url and site_name of its own, and without
\* description, image_count and first_image_url
DetailU ==
    [url |-> PyStr("elsewhere"), site_name |-> PyStr("Other"),
     title |-> PyStr("flat"), price |-> PyStr("300"),
     area_m2 |-> PyStr("40")]

\* a summary with a key the detail map has too (price) and one it has not
SummaryFull(u) ==
    [url |-> PyStr(u), title |-> PyStr("listing"), price |-> PyStr("295"),
     district |-> PyStr("centre")]

\* two versions of a description that differ after the 50th character
DetailL1 ==
    [DetailA EXCEPT !.description = PyStr("long description, first version")]

DetailL2 ==
    [DetailA EXCEPT !.description = PyStr("long description, second version")]

DetailE == [k \in DOMAIN DetailA \cup {"area_m2"} |->
              IF k = "area_m2" THEN PyStr("40") ELSE DetailA[k]]

(***************************************************************************)
(* An environment E of the program: the host's time zone (tzs), whether a  *)
(* webhook is configured (hooks), the scrapers main finds (sites), what    *)
(* their pages hold (pages, nexts, details), whether a write to the        *)
(* database may raise (fails), what the webhook answers (http), whether    *)
(* the model ends at MaxClock (stop), and how main may be told to run the  *)
(* scrapers (modes).                                                       *)
(***************************************************************************)
TzOffsets == {0 - TicksPerSecond, 0, TicksPerSecond}

HttpOutcomes == {"ok", "request_error"}

(***************************************************************************)
(* The state after construction.                                           *)
(***************************************************************************)
NoData == [k \in {} |-> None]

\* history of a call of the notifier: the queue and last_notification_time
\* when _process_queue was entered, its current_time and its posts
NoCall ==
    [drained |-> FALSE, queue0 |-> <<>>, sent0 |-> NoTime, now |-> 0,
     posts |-> <<>>]

NoLast ==
    [kind |-> "none", url |-> None, data |-> NoData, before |-> NoRow,
     changes |-> <<>>, fails |-> FALSE, again |-> FALSE, enq |-> <<>>,
     lu |-> 0, lc |-> 0, fs |-> 0, call |-> NoCall]

NoMerge == [summary |-> NoData, detail |-> NoData]

OtherIdle ==
    [pc |-> "idle", url |-> None, data |-> NoData, row |-> NoRow,
     rejected |-> FALSE]

InitIn(E) ==
    /\ clock = 0
    /\ tz \in E.tzs
    /\ listings = <<>>
    /\ to_run = <<>>
    /\ pc = "idle"
    /\ site = ""
    /\ page = 1
    /\ summaries = <<>>
    /\ has_next = FALSE
    /\ processed = <<>>
    /\ webhook_url \in E.hooks
    /\ queue = <<>>
    /\ last_sent = NoTime
    /\ requested = <<>>
    /\ fetched = 0
    /\ handled = 0
    /\ last = NoLast
    /\ news = {}
    /\ delivered = <<>>
    /\ enqueued = <<>>
    /\ merge = NoMerge
    /\ other = OtherIdle
    /\ mode = "all"

(***************************************************************************)
(* main (src/scrapers/main.py, src/main.py): a run of the program builds   *)
(* the managers and runs the scrapers one after another, in the order of   *)
(* their names: all of them in a loop, or the one the user chose.          *)
(***************************************************************************)
StartRun(E) ==
    /\ pc \in {"idle", "done", "crashed"}
    /\ to_run = <<>>
    /\ \E m \in E.modes :
         /\ mode' = m
         /\ IF m = "single"
            THEN \E i \in DOMAIN E.sites : to_run' = <<E.sites[i]>>
            ELSE to_run' = E.sites
    /\ pc' = "idle"
    /\ queue' = <<>>
    /\ last_sent' = NoTime
    /\ delivered' = <<>>
    /\ enqueued' = <<>>
    /\ UNCHANGED <<clock, tz, listings, site, page, summaries, has_next,
                   processed, webhook_url, requested, fetched, handled,
                   last, news, merge, other>>

LoopCond_OffByOne(p) == p <= MAX_PAGES + 1

\* line 79: the condition of the while loop
LoopCond(p) == p <= MAX_PAGES

\* the next scraper started without waiting for the end of the crawl
\* that is running
StartScrape_Concurrent ==
    /\ to_run # <<>>
    /\ site' = Head(to_run)
    /\ to_run' = Tail(to_run)
    /\ page' = 1
    /\ processed' = <<>>
    /\ requested' = <<>>
    /\ fetched' = 0
    /\ handled' = 0
    /\ summaries' = <<>>
    /\ has_next' = FALSE
    /\ pc' = IF LoopCond(1) THEN "page" ELSE "done"
    /\ UNCHANGED <<clock, tz, mode, listings, webhook_url, queue, last_sent,
                   last, news, delivered,
                   enqueued, merge, other>>

\* a NotificationManager of its own for every scraper, built in the loop
\* of main instead of once before it
StartScrape_OwnManager ==
    /\ pc \in {"idle", "done"}
    /\ to_run # <<>>
    /\ site' = Head(to_run)
    /\ to_run' = Tail(to_run)
    /\ page' = 1
    /\ processed' = <<>>
    /\ requested' = <<>>
    /\ fetched' = 0
    /\ handled' = 0
    /\ summaries' = <<>>
    /\ has_next' = FALSE
    /\ pc' = IF LoopCond(1) THEN "page" ELSE "done"
    /\ queue' = <<>>
    /\ last_sent' = NoTime
    /\ UNCHANGED <<clock, tz, mode, listings, webhook_url,
                   last, news, delivered,
                   enqueued, merge, other>>

\* main calls scrape of the next scraper: lines 71-79
StartScrape ==
    /\ pc \in {"idle", "done"}
    /\ to_run # <<>>
    /\ site' = Head(to_run)
    /\ to_run' = Tail(to_run)
    /\ page' = 1
    /\ processed' = <<>>
    /\ requested' = <<>>
    /\ fetched' = 0
    /\ handled' = 0
    /\ summaries' = <<>>
    /\ has_next' = FALSE
    /\ pc' = IF LoopCond(1) THEN "page" ELSE "done"
    /\ UNCHANGED <<clock, tz, mode, listings, webhook_url, queue, last_sent,
                   last, news, delivered,
                   enqueued, merge, other>>

\* lines 83-94: the page is fetched and parsed
FetchPage(E) ==
    /\ pc = "page"
    /\ requested' = Append(requested, page)
    /\ \/ \* fetch_listings_page returns nothing, or no summaries
          /\ pc' = "done"
          /\ summaries' = <<>>
          /\ fetched' = 0
          /\ UNCHANGED has_next
       \/ \E listings_summaries \in E.pages, next \in E.nexts :
            /\ summaries' = listings_summaries
            /\ has_next' = next
            /\ fetched' = Len(listings_summaries)
            /\ pc' = "items"
    /\ handled' = 0
    /\ UNCHANGED <<clock, tz, mode, listings, to_run, site, page, processed,
                   webhook_url, queue, last_sent, last, news, delivered,
                   enqueued, merge, other>>

NextPc_IgnoresHasNext(more, p) == IF LoopCond(p) THEN "page" ELSE "done"

\* lines 194-196, and the loop condition for the next page
NextPc(more, p) == IF more /\ LoopCond(p) THEN "page" ELSE "done"

\* a call of _process_queue at the end of every page
EndPage_Drains ==
    /\ pc = "items"
    /\ summaries = <<>>
    /\ page' = IF has_next THEN page + 1 ELSE page
    /\ pc' = NextPc(has_next, page + 1)
    /\ LET ns == process_queue([queue |-> queue, last_sent |-> last_sent,
                                delivered |-> delivered, enq |-> <<>>,
                                posts |-> <<>>],
                               PyNow(clock), "ok")
       IN  /\ queue' = ns.queue
           /\ last_sent' = ns.last_sent
           /\ delivered' = ns.delivered
    /\ UNCHANGED <<clock, tz, mode, listings, to_run, site, summaries,
                   has_next, processed, webhook_url,
                   requested, fetched, handled, last, news,
                   enqueued, merge, other>>

EndPage ==
    /\ pc = "items"
    /\ summaries = <<>>
    /\ page' = IF has_next THEN page + 1 ELSE page
    /\ pc' = NextPc(has_next, page + 1)
    /\ UNCHANGED <<clock, tz, mode, listings, to_run, site, summaries,
                   has_next, processed, webhook_url, queue, last_sent,
                   requested, fetched, handled, last, news, delivered,
                   enqueued, merge, other>>

(***************************************************************************)
(* One iteration of the loop over the summaries of a page (lines 97-192).  *)
(***************************************************************************)
Notifier ==
    [queue |-> queue, last_sent |-> last_sent, delivered |-> delivered,
     enq |-> <<>>, posts |-> <<>>]

SetNotifier(ns) ==
    /\ queue' = ns.queue
    /\ last_sent' = ns.last_sent
    /\ delivered' = ns.delivered
    /\ enqueued' = enqueued \o ns.enq

\* the loop left (break) instead of continued at a summary without url
SkipNoUrl_EndsPage ==
    /\ pc = "items"
    /\ summaries # <<>>
    /\ ~Truthy(Get(Head(summaries), "url"))
    /\ summaries' = <<>>
    /\ handled' = handled + 1
    /\ last' = [NoLast EXCEPT !.kind = "nourl"]
    /\ UNCHANGED <<clock, tz, mode, listings, to_run, pc, site, page,
                   has_next, processed, webhook_url, queue, last_sent,
                   requested, fetched, news, delivered, enqueued, merge,
                   other>>

\* lines 102-104: a summary without url is skipped
SkipNoUrl ==
    /\ pc = "items"
    /\ summaries # <<>>
    /\ ~Truthy(Get(Head(summaries), "url"))
    /\ summaries' = Tail(summaries)
    /\ handled' = handled + 1
    /\ last' = [NoLast EXCEPT !.kind = "nourl"]
    /\ UNCHANGED <<clock, tz, mode, listings, to_run, pc, site, page,
                   has_next, processed, webhook_url, queue, last_sent,
                   requested, fetched, news, delivered,
                   enqueued, merge, other>>

\* the loop left (break) instead of continued after a failed detail page
DetailFailed_EndsCrawl(E) ==
    /\ pc = "items"
    /\ summaries # <<>>
    /\ Truthy(Get(Head(summaries), "url"))
    /\ E.stop => clock < MaxClock
    /\ pc' = "done"
    /\ summaries' = Tail(summaries)
    /\ handled' = handled + 1
    /\ last' = [NoLast EXCEPT !.kind = "skip",
                              !.url = Get(Head(summaries), "url")]
    /\ UNCHANGED <<clock, tz, mode, listings, to_run, site, page, has_next,
                   processed, webhook_url, queue, last_sent, requested,
                   fetched, news, delivered, enqueued, merge, other>>

\* lines 106-118: the detail page is not fetched, or parses to nothing
DetailFailed(E) ==
    /\ pc = "items"
    /\ summaries # <<>>
    /\ Truthy(Get(Head(summaries), "url"))
    /\ E.stop => clock < MaxClock
    /\ \E fails \in E.fails :
         LET listing_url == Get(Head(summaries), "url")
             row == get_listing_by_url(listings, listing_url)
             c1 == Tick(clock, 1)
         IN  IF row = NoRow
             THEN /\ UNCHANGED <<clock, listings, other>>
                  /\ last' = [NoLast EXCEPT !.kind = "skip",
                                            !.url = listing_url]
             ELSE /\ clock' = c1
                  /\ listings' = update_last_checked(listings, listing_url,
                                                     PyNow(c1), fails)
                  /\ last' = [NoLast EXCEPT
                                !.kind = "touch", !.url = listing_url,
                                !.before = row, !.fails = fails,
                                !.lc = PyNow(c1)]
    /\ summaries' = Tail(summaries)
    /\ handled' = handled + 1
    /\ UNCHANGED <<tz, mode, to_run, pc, site, page, has_next, processed,
                   webhook_url, queue, last_sent, requested, fetched, news,
                   delivered,
                   enqueued, merge, other>>

\* lines 137-152: the url is not in the table
Insert(data, d2, d3, fails, http) ==
    LET listing_url == Get(data, "url")
        c1 == Tick(clock, 1)
        c2 == Tick(c1, d2)
        c3 == Tick(c2, d3)
        embed == format_new_listing_embed(data)
        ns == send_notification(Notifier, webhook_url, embed, PyNow(c3), http)
    IN  /\ listings' = add_listing(listings, db_insert_data(data), PyNow(c1),
                                   PyNow(c2), SqlNow(c3), fails)
        /\ clock' = c3
        /\ SetNotifier(ns)
        /\ news' = news \cup {listing_url}
        /\ last' = [NoLast EXCEPT
                      !.kind = "insert", !.url = listing_url, !.data = data,
                      !.fails = fails, !.again = listing_url \in news,
                      !.enq = ns.enq, !.lu = PyNow(c1), !.lc = PyNow(c2),
                      !.fs = SqlNow(c3),
                      !.call = [drained |-> webhook_url,
                                queue0 |-> queue \o ns.enq,
                                sent0 |-> last_sent, now |-> PyNow(c3),
                                posts |-> ns.posts]]

\* lines 154-190: the url is in the table
Update(row, data, d2, fails, http) ==
    LET listing_url == Get(data, "url")
        c1 == Tick(clock, 1)
        c2 == Tick(c1, d2)
        changes == changes_for_notification(row, data)
        embed == format_updated_listing_embed(data, changes)
        ns == IF changes # <<>>
              THEN send_notification(Notifier, webhook_url, embed, PyNow(c2),
                                     http)
              ELSE Notifier
    IN  /\ listings' = update_listing(listings, listing_url,
                                      update_payload_for_db(row, data),
                                      PyNow(c1), PyNow(c2), fails)
        /\ clock' = c2
        /\ SetNotifier(ns)
        /\ news' = news
        /\ last' = [NoLast EXCEPT
                      !.kind = "update", !.url = listing_url, !.data = data,
                      !.before = row, !.changes = changes, !.fails = fails,
                      !.enq = ns.enq, !.lu = PyNow(c1), !.lc = PyNow(c2),
                      !.call = [drained |-> webhook_url /\ changes # <<>>,
                                queue0 |-> queue \o ns.enq,
                                sent0 |-> last_sent, now |-> PyNow(c2),
                                posts |-> ns.posts]]

Reconcile(E) ==
    /\ pc = "items"
    /\ summaries # <<>>
    /\ Truthy(Get(Head(summaries), "url"))
    /\ Len(queue) < MaxQueue
    /\ E.stop => clock < MaxClock
    /\ \E detailed_data \in E.details, d2, d3 \in 0..1,
          fails \in E.fails, http \in E.http :
         LET listing_url == Get(Head(summaries), "url")
             data == current_listing_data(Head(summaries), detailed_data,
                                          listing_url, PyStr(site))
             existing_listing_row == get_listing_by_url(listings, listing_url)
         IN  /\ IF existing_listing_row = NoRow
                THEN Insert(data, d2, d3, fails, http)
                ELSE Update(existing_listing_row, data, d2, fails, http)
             /\ processed' = Append(processed, listing_url)
             /\ merge' = [summary |-> Head(summaries),
                          detail |-> detailed_data]
    /\ summaries' = Tail(summaries)
    /\ handled' = handled + 1
    /\ UNCHANGED <<tz, mode, to_run, pc, site, page, has_next, webhook_url,
                   requested, fetched, other>>

(***************************************************************************)
(* A second run of the program on the same database file, in the middle    *)
(* of a loop iteration: its lookup (line 135) and its write (lines         *)
(* 137-181) are separate steps, so an iteration of the first run can come  *)
(* between them.                                                           *)
(***************************************************************************)
OtherLookup(E) ==
    /\ other.pc = "idle"
    /\ clock < MaxClock
    /\ \E listings_summaries \in E.pages, detailed_data \in E.details :
       \E i \in 1..Len(listings_summaries) :
         LET summary == listings_summaries[i]
             listing_url == Get(summary, "url")
             row == get_listing_by_url(listings, listing_url)
         IN  /\ Truthy(listing_url)
             /\ other' = [pc |-> IF row = NoRow THEN "insert" ELSE "update",
                          url |-> listing_url,
                          data |-> current_listing_data(summary,
                                     detailed_data, listing_url,
                                     PyStr(E.sites[1])),
                          row |-> row,
                          rejected |-> FALSE]
    /\ UNCHANGED <<clock, tz, mode, listings, to_run, pc, site, page, summaries,
                   has_next, processed, webhook_url, queue, last_sent,
                   requested, fetched, handled, last, news, delivered,
                   enqueued, merge>>

OtherWrite ==
    /\ other.pc \in {"insert", "update"}
    /\ clock < MaxClock
    /\ clock' = Tick(clock, 1)
    /\ listings' =
         IF other.pc = "insert"
         THEN add_listing(listings, db_insert_data(other.data), PyNow(clock),
                          PyNow(clock), SqlNow(clock), FALSE)
         ELSE update_listing(listings, other.url,
                             update_payload_for_db(other.row, other.data),
                             PyNow(clock), PyNow(clock), FALSE)
    /\ other' = [OtherIdle EXCEPT
                   !.url = other.url,
                   !.rejected = /\ other.pc = "insert"
                                /\ RowsOf(listings, other.url) # {}]
    /\ UNCHANGED <<tz, mode, to_run, pc, site, page, summaries, has_next,
                   processed, webhook_url, queue, last_sent, requested,
                   fetched, handled, last, news, delivered,
                   enqueued, merge>>

NextIn(E) ==
    \/ StartRun(E)
    \/ StartScrape
    \/ FetchPage(E)
    \/ SkipNoUrl
    \/ DetailFailed(E)
    \/ Reconcile(E)
    \/ EndPage

(***************************************************************************)
(* Spec: a host in any time zone, a webhook configured or not, two         *)
(* scrapers whose sites list the same two urls on one page each.           *)
(***************************************************************************)
Env ==
    [tzs |-> TzOffsets, hooks |-> {TRUE}, sites |-> <<"SiteA">>,
     pages |-> {<<SummaryOf("u1"), SummaryNoUrl, SummaryOf("u2")>>,
                <<SummaryOf("u1"), SummaryOf("u1")>>},
     nexts |-> {FALSE},
     details |-> {DetailA, DetailB, DetailC},
     fails |-> BOOLEAN, http |-> {"ok"}, stop |-> TRUE,
     modes |-> {"all"}]

Init == InitIn(Env)

Next == NextIn(Env)

Spec == Init /\ [][Next]_vars

(***************************************************************************)
(* SpecPages: one scraper whose site has any number of pages, on a host    *)
(* in UTC without webhook.  SpecPagesFair: the steps of a crawl that has   *)
(* started are taken (the loop runs on).                                   *)
(***************************************************************************)
EnvPages ==
    [tzs |-> {0}, hooks |-> {FALSE}, sites |-> <<"SiteA">>,
     pages |-> {<<SummaryOf("u1")>>, <<SummaryNoUrl, SummaryOf("u1")>>},
     nexts |-> BOOLEAN, details |-> {DetailA},
     fails |-> {FALSE}, http |-> {"ok"}, stop |-> FALSE,
     modes |-> {"all"}]

CrawlStep(E) ==
    \/ FetchPage(E)
    \/ SkipNoUrl
    \/ DetailFailed(E)
    \/ Reconcile(E)
    \/ EndPage

SpecPages == InitIn(EnvPages) /\ [][NextIn(EnvPages)]_vars

SpecPagesFair == SpecPages /\ WF_vars(CrawlStep(EnvPages))

Crawling == pc \in {"page", "items"}

\* C1: a crawl requests the pages 1, 2, 3, ... in this order, none skipped
\* or repeated; it requests a further page only when the page before held
\* summaries and reported has_next_page, and it stops only after every
\* summary of the last page was processed (so with has_next_page first
\* false on page 3 the pages requested are exactly 1, 2, 3).
C1_PagesInSequence ==
    /\ requested = [i \in 1..Len(requested) |-> i]
    /\ pc = "page" => Len(requested) = page - 1
    /\ pc = "page" /\ requested # <<>> => has_next /\ fetched > 0
    /\ pc = "items" => Len(requested) = page
    /\ pc = "items" => handled + Len(summaries) = fetched
    /\ pc = "done" => handled = fetched
    /\ pc = "done" /\ fetched > 0 /\ ~has_next => Len(requested) = page

C1_Witness ==
    /\ pc = "done"
    /\ requested = <<1, 2, 3>>
    /\ ~has_next
    /\ fetched = 2
    /\ handled = 2

\* C2: a crawl never requests a page beyond MAX_PAGES and always ends,
\* also when every page is non-empty and reports has_next_page.
C2_CapAndTermination ==
    /\ [](\A i \in DOMAIN requested : requested[i] <= MAX_PAGES)
    /\ Crawling ~> pc = "done"

C2_Witness ==
    /\ pc = "done"
    /\ has_next
    /\ fetched > 0
    /\ Len(requested) = MAX_PAGES
    /\ page = MAX_PAGES + 1

(***************************************************************************)
(* The listing store: claims about what one loop iteration did to the      *)
(* table (last: the iteration, last.before: the row it found).             *)
(***************************************************************************)
DedicatedFields ==
    {"title", "price", "description", "image_count", "first_image_url"}

TrackedFields == {"price", "description", "image_count"}

Row(url) == get_listing_by_url(listings, url)

Inserted == last.kind = "insert" /\ ~last.fails

Updated == last.kind = "update" /\ ~last.fails

NewItem(data) ==
    [has_content |-> FALSE, embed |-> format_new_listing_embed(data)]

\* the parts of C3 that do not depend on the clocks
InsertStoresCandidate ==
    Inserted =>
        /\ Cardinality(RowsOf(listings, last.url)) = 1
        /\ \A f \in DedicatedFields \cup {"site_name"} :
              Row(last.url)[f] = Get(last.data, f)
        /\ last.changes = <<>>
        /\ last.enq = IF webhook_url THEN <<NewItem(last.data)>> ELSE <<>>

\* C3: reconciling a candidate whose reference is not in the store inserts
\* exactly one listing with the candidate's dedicated fields and
\* source_name, with first_seen = last_updated = last_checked = the time of
\* the insert; there are no change entries and a 'New' notification is
\* enqueued.
C3_InsertCreatesListing ==
    /\ InsertStoresCandidate
    /\ Inserted =>
         /\ Row(last.url).first_seen = Row(last.url).last_updated
         /\ Row(last.url).last_updated = Row(last.url).last_checked
         /\ Row(last.url).last_checked = PyNow(clock)

\* C4: a reference takes the insert path ('New' signal) at most once; every
\* later reconciliation of it takes the update path.
C4_CreatedOnce == last.kind = "insert" => ~last.again

ChangeEntries(f) == {i \in DOMAIN last.changes : last.changes[i][1] = f}

FieldDiffers(f) == last.before[f] # Get(last.data, f)

\* C5: on the update path every differing tracked field gives exactly one
\* change entry (field, old, new), a differing non-tracked dedicated field
\* gives none, and the dedicated column and full_record hold the
\* candidate's new value.
C5_DiffCorrect ==
    Updated =>
        \A f \in DedicatedFields :
            FieldDiffers(f) =>
                /\ f \in TrackedFields =>
                     /\ Cardinality(ChangeEntries(f)) = 1
                     /\ \A i \in ChangeEntries(f) :
                           last.changes[i] =
                              <<f, StrCut(last.before[f]),
                                StrCut(Get(last.data, f))>>
                /\ f \notin TrackedFields => ChangeEntries(f) = {}
                /\ Row(last.url)[f] = Get(last.data, f)
                /\ Get(JsonLoads(Row(last.url).raw_data), f)
                      = Get(last.data, f)

C5_Witness ==
    /\ Updated
    /\ FieldDiffers("price")
    /\ FieldDiffers("title")
    /\ Len(last.changes) = 1

SameCandidate ==
    /\ Updated
    /\ \A f \in DedicatedFields : ~FieldDiffers(f)

\* C6 as claimed: reconciling the same candidate again gives no change
\* entry, and of the stored listing only last_checked advances.
C6_OnlyLastCheckedAdvances ==
    SameCandidate =>
        /\ last.changes = <<>>
        /\ \A f \in DedicatedFields : Row(last.url)[f] = last.before[f]
        /\ Row(last.url).last_updated = last.before.last_updated
        /\ Row(last.url).last_checked > last.before.last_checked

\* C6 as amended: reconciling the same candidate again takes the update
\* path, gives no change entry and no notification, keeps every dedicated
\* field, source_name and first_seen, and sets both last_updated and
\* last_checked to the time of this reconciliation (full_record is
\* rewritten).
C6_Idempotent ==
    SameCandidate =>
        /\ last.changes = <<>>
        /\ last.enq = <<>>
        /\ \A f \in DedicatedFields \cup {"site_name", "first_seen", "id"} :
              Row(last.url)[f] = last.before[f]
        /\ Row(last.url).last_updated = last.lu
        /\ Row(last.url).last_checked = last.lc
        /\ last.lu > last.before.last_updated
        /\ last.lc > last.before.last_checked

C6_Witness ==
    /\ SameCandidate
    /\ Row(last.url).last_updated > last.before.last_updated

\* C7: after a successful reconciliation the stored full_record is exactly
\* the merged candidate, and on the update path last_updated and
\* last_checked are the time of the reconciliation.
C7_FullRecordIsCandidate ==
    Inserted \/ Updated =>
        /\ JsonLoads(Row(last.url).raw_data) = last.data
        /\ Updated =>
             /\ Row(last.url).last_updated = last.lu
             /\ Row(last.url).last_checked = last.lc

\* what the code stores instead: the candidate under the key raw_data of
\* the dict handed to the database
FullRecordWrapsCandidate ==
    Inserted \/ Updated =>
        Get(JsonLoads(Row(last.url).raw_data), "raw_data") = PyDict(last.data)

\* C8: every listing has first_seen <= last_updated <= now and
\* last_checked >= last_updated.
C8_TimestampOrder ==
    \A i \in DOMAIN listings :
        /\ listings[i].first_seen <= listings[i].last_updated
        /\ listings[i].last_updated <= PyNow(clock)
        /\ listings[i].last_checked >= listings[i].last_updated

\* the part of C8 that rests on one clock only
LocalTimestampOrder ==
    \A i \in DOMAIN listings :
        /\ listings[i].last_updated <= PyNow(clock)
        /\ listings[i].last_checked <= PyNow(clock)
        /\ listings[i].last_checked >= listings[i].last_updated

(***************************************************************************)
(* SpecRace: the program on a host in UTC without webhook, and a second    *)
(* run of it on the same database.                                         *)
(***************************************************************************)
EnvRace ==
    [tzs |-> {0}, hooks |-> {FALSE}, sites |-> <<"SiteA">>,
     pages |-> {<<SummaryOf("u1"), SummaryNoUrl, SummaryOf("u2")>>},
     nexts |-> {FALSE}, details |-> {DetailA, DetailB},
     fails |-> {FALSE}, http |-> {"ok"}, stop |-> TRUE,
     modes |-> {"all"}]

SpecRace ==
    /\ InitIn(EnvRace)
    /\ [][NextIn(EnvRace) \/ OtherLookup(EnvRace) \/ OtherWrite]_vars

\* C9: the table never holds two rows of one url, and no step removes a
\* row or changes the url of a row; also when the lookup and the insert of
\* two reconciliations of the same unseen url interleave.
C9_UniqueAndGrowing ==
    /\ [](\A i, j \in DOMAIN listings :
            listings[i].url = listings[j].url => i = j)
    /\ [][\A i \in DOMAIN listings :
            /\ i \in DOMAIN listings'
            /\ listings'[i].url = listings[i].url
            /\ listings'[i].id = listings[i].id]_vars

C9_Witness ==
    /\ other.rejected
    /\ last.kind = "insert"
    /\ last.url = other.url
    /\ Cardinality(RowsOf(listings, other.url)) = 1

\* C10: first_seen is set by the insert and no later update or
\* last_checked touch of the reference changes it.
C10_FirstSeenFixed ==
    /\ Inserted => Row(last.url).first_seen = last.fs
    /\ last.kind \in {"update", "touch"} =>
         Row(last.url).first_seen = last.before.first_seen

C10_Witness ==
    /\ last.kind \in {"update", "touch"}
    /\ ~last.fails
    /\ Row(last.url).last_checked > last.before.last_checked
    /\ Row(last.url).first_seen = last.before.first_seen

(***************************************************************************)
(* SpecItems: one scraper on a host in UTC with a webhook; its site has    *)
(* any number of pages, its summaries and detail maps share keys, and a    *)
(* price may come as text or as a float.                                   *)
(***************************************************************************)
EnvItems ==
    [tzs |-> {0}, hooks |-> {TRUE}, sites |-> <<"SiteA">>,
     pages |-> {<<SummaryFull("u1"), SummaryNoUrl, SummaryOf("u2")>>},
     nexts |-> BOOLEAN, details |-> {DetailA, DetailF, DetailU},
     fails |-> {FALSE}, http |-> {"ok"}, stop |-> TRUE,
     modes |-> {"all"}]

SpecItems == InitIn(EnvItems) /\ [][NextIn(EnvItems)]_vars

\* the texts of floats in the model, and the number a value denotes when
\* it parses as a number (float(value))
FloatTexts == {"295.0", "300.0"}

ParsesAsNumber(v) ==
    \/ IsNum(v)
    \/ v.ty = "str" /\ v.s \in DecimalTexts \cup FloatTexts

NumberOf(v) ==
    CASE IsNum(v) -> v.n
      [] v.s \in DecimalTexts -> DecimalValue(v.s)
      [] v.s = "295.0" -> 295
      [] v.s = "300.0" -> 300

SameNumber(a, b) ==
    /\ ParsesAsNumber(a)
    /\ ParsesAsNumber(b)
    /\ NumberOf(a) = NumberOf(b)

\* C11: on the update path a stored value and a candidate value that
\* denote the same number are not reported as a difference: the field has
\* no change entry and is not in the update set written to the database.
C11_TypeAwareCompare ==
    Updated =>
        \A f \in {"price", "image_count"} :
            SameNumber(last.before[f], Get(last.data, f)) =>
                /\ ChangeEntries(f) = {}
                /\ f \notin DOMAIN JsonLoads(Row(last.url).raw_data)

\* what holds instead: image_count goes through int() and is compared as a
\* number
ImageCountComparedAsNumber ==
    Updated /\ SameNumber(last.before.image_count,
                          Get(last.data, "image_count")) =>
        ChangeEntries("image_count") = {}

\* a step of the loop for an item whose detail page was not fetched or
\* parsed to nothing
FailedItemStep ==
    /\ handled' = handled + 1
    /\ last'.kind \in {"touch", "skip"}

\* C12: when the detail fetch fails or the detail parse is empty for a
\* url, a stored row of that url changes in last_checked only, every other
\* row and a table without that url stay as they are, nothing is enqueued
\* or sent, and the url is not added to the records the crawl returns.
C12_FailedDetailTouchesOnly ==
    [][FailedItemStep =>
         /\ DOMAIN listings' = DOMAIN listings
         /\ \A i \in DOMAIN listings :
               \A c \in DOMAIN listings[i] :
                  listings'[i][c] # listings[i][c] =>
                      c = "last_checked" /\ listings[i].url = last'.url
         /\ RowsOf(listings, last'.url) = {} => listings' = listings
         /\ queue' = queue
         /\ enqueued' = enqueued
         /\ delivered' = delivered
         /\ last_sent' = last_sent
         /\ processed' = processed]_vars

C12_Witness ==
    /\ last.kind = "touch"
    /\ ~last.fails
    /\ Row(last.url).last_checked > last.before.last_checked
    /\ Row(last.url).last_updated = last.before.last_updated
    /\ Row(last.url).raw_data = last.before.raw_data

\* C13: an item whose detail page fails does not end the crawl: the loop
\* goes on with the summaries after it, page and has_next_page are as
\* they were, and a crawl ends only when every summary of its last page
\* went through the loop.
C13_FailedItemDoesNotEndCrawl ==
    /\ [](pc = "done" => handled = fetched)
    /\ [][FailedItemStep =>
            /\ pc = "items"
            /\ pc' = "items"
            /\ summaries' = Tail(summaries)
            /\ page' = page
            /\ has_next' = has_next
            /\ to_run' = to_run
            /\ site' = site
            /\ requested' = requested]_vars

C13_Witness ==
    /\ page = 1
    /\ handled = 3
    /\ last.kind = "insert"
    /\ last.url = PyStr("u2")
    /\ processed = <<PyStr("u2")>>

\* a step of the loop for a summary without url
NoUrlStep ==
    /\ handled' = handled + 1
    /\ last'.kind = "nourl"

\* C14: a summary without url is discarded: no detail map is merged for
\* it, the table is not written, nothing is enqueued or sent, it is not
\* added to the records the crawl returns, and the loop goes on with the
\* summary after it.
C14_NoUrlDiscarded ==
    [][NoUrlStep =>
         /\ ~Truthy(Get(Head(summaries), "url"))
         /\ merge' = merge
         /\ clock' = clock
         /\ listings' = listings
         /\ queue' = queue
         /\ enqueued' = enqueued
         /\ delivered' = delivered
         /\ last_sent' = last_sent
         /\ processed' = processed
         /\ pc' = "items"
         /\ summaries' = Tail(summaries)
         /\ page' = page
         /\ has_next' = has_next]_vars

C14_Witness ==
    /\ handled = 3
    /\ fetched = 3
    /\ last.kind \in {"insert", "update"}
    /\ last.url = PyStr("u2")
    /\ processed = <<PyStr("u1"), PyStr("u2")>>
    /\ Len(listings) = 2

Merged == last.kind \in {"insert", "update"}

\* C15: the merged record of an item has every key of its summary and of
\* its detail map; a key of the detail map has the detail map's value, a
\* key of the summary alone the summary's; url and site_name are the
\* summary's url and the scraper's site_name, whatever the two maps hold
\* under these keys.
C15_MergedRecord ==
    Merged =>
        /\ DOMAIN merge.summary \cup DOMAIN merge.detail
               \subseteq DOMAIN last.data
        /\ \A k \in DOMAIN merge.detail \ {"url", "site_name"} :
               last.data[k] = merge.detail[k]
        /\ \A k \in DOMAIN merge.summary \
                    (DOMAIN merge.detail \cup {"url", "site_name"}) :
               last.data[k] = merge.summary[k]
        /\ last.data.url = Get(merge.summary, "url")
        /\ last.data.url = last.url
        /\ last.data.site_name = PyStr(site)

C15_Witness ==
    /\ Merged
    /\ merge.summary = SummaryFull("u1")
    /\ merge.detail = DetailU
    /\ last.data.url = PyStr("u1")
    /\ last.data.site_name = PyStr("SiteA")
    /\ last.data.price = PyStr("300")
    /\ last.data.district = PyStr("centre")

(***************************************************************************)
(* SpecDispatcher: the NotificationManager by itself.  Its two methods     *)
(* are called at any time with any embed: send_notification as scrape      *)
(* calls it, and _process_queue alone (a drain without enqueue).           *)
(***************************************************************************)
EmbedsSent ==
    {format_new_listing_embed(
         current_listing_data(SummaryOf("u1"), DetailA, PyStr("u1"),
                              PyStr("SiteA"))),
     format_new_listing_embed(
         current_listing_data(SummaryOf("u2"), DetailA, PyStr("u2"),
                              PyStr("SiteB"))),
     NoEmbed}

\* send_notification(embed=embed), called at time now
Send(E) ==
    /\ Len(queue) < MaxQueue
    /\ Len(enqueued) < MaxSends
    /\ \E embed \in EmbedsSent, d \in 0..TicksPerSecond, http \in E.http :
         LET now == Tick(clock, d)
             ns == send_notification(Notifier, webhook_url, embed,
                                     PyNow(now), http)
         IN  /\ clock' = now
             /\ SetNotifier(ns)
             /\ last' = [NoLast EXCEPT
                           !.kind = "send", !.enq = ns.enq,
                           !.call = [drained |-> webhook_url,
                                     queue0 |-> queue \o ns.enq,
                                     sent0 |-> last_sent,
                                     now |-> PyNow(now),
                                     posts |-> ns.posts]]
    /\ UNCHANGED <<tz, mode, listings, to_run, pc, site, page, summaries,
                   has_next, processed, webhook_url, requested, fetched,
                   handled, news, merge, other>>

\* _process_queue(), called at time now
Drain(E) ==
    /\ \E d \in 0..TicksPerSecond, http \in E.http :
         LET now == Tick(clock, d)
             ns == process_queue(Notifier, PyNow(now), http)
         IN  /\ clock' = now
             /\ SetNotifier(ns)
             /\ last' = [NoLast EXCEPT
                           !.kind = "drain",
                           !.call = [drained |-> TRUE,
                                     queue0 |-> queue,
                                     sent0 |-> last_sent,
                                     now |-> PyNow(now),
                                     posts |-> ns.posts]]
    /\ UNCHANGED <<tz, mode, listings, to_run, pc, site, page, summaries,
                   has_next, processed, webhook_url, requested, fetched,
                   handled, news, merge, other>>

EnvDispatcher ==
    [tzs |-> {0}, hooks |-> BOOLEAN, sites |-> <<"SiteA", "SiteB">>,
     pages |-> {}, nexts |-> {FALSE}, details |-> {},
     fails |-> {FALSE}, http |-> HttpOutcomes, stop |-> FALSE,
     modes |-> {"all"}]

SpecDispatcher ==
    /\ InitIn(EnvDispatcher)
    /\ [][Send(EnvDispatcher) \/ Drain(EnvDispatcher)]_vars

DrainCalled == last.kind \in {"send", "drain"} /\ last.call.drained

\* less than MIN_NOTIFICATION_INTERVAL seconds between the last delivery
\* and the current_time of the call
CalledTooEarly ==
    /\ last.call.sent0.set
    /\ last.call.now - last.call.sent0.at
          < MIN_NOTIFICATION_INTERVAL * TicksPerSecond

\* C16: one call of _process_queue takes at most one item, the head, off
\* the queue and posts at most once; with an empty queue, or less than
\* MIN_NOTIFICATION_INTERVAL after the last delivery, it posts nothing and
\* leaves the queue and last_notification_time as they were.
C16_DrainAtMostOne ==
    DrainCalled =>
        /\ Len(last.call.posts) <= 1
        /\ \/ queue = last.call.queue0
           \/ last.call.queue0 # <<>> /\ queue = Tail(last.call.queue0)
        /\ last.call.queue0 = <<>> \/ CalledTooEarly =>
              /\ last.call.posts = <<>>
              /\ queue = last.call.queue0
              /\ last_sent = last.call.sent0

C16_Witness ==
    /\ DrainCalled
    /\ CalledTooEarly
    /\ Len(queue) = 2
    /\ queue = last.call.queue0
    /\ Len(delivered) = 1

PostFailed ==
    /\ DrainCalled
    /\ Len(last.call.posts) = 1
    /\ ~last.call.posts[1].ok

\* C18: when the post of a call fails, the notification is back at the
\* head of the queue: the queue is what it was when _process_queue was
\* entered, items and order, and last_notification_time is unchanged.
C18_FailedPostRequeuedAtHead ==
    PostFailed =>
        /\ queue = last.call.queue0
        /\ Head(queue).embed = last.call.posts[1].embed
        /\ last_sent = last.call.sent0
        /\ delivered # <<>> =>
              delivered[Len(delivered)].embed # last.call.posts[1].embed
                 \/ delivered[Len(delivered)].at < last.call.now

C18_Witness ==
    /\ PostFailed
    /\ Len(queue) = 2
    /\ queue[1] # queue[2]
    /\ queue = last.call.queue0

(***************************************************************************)
(* SpecNotify: the program with a webhook that answers or fails, two       *)
(* scrapers run one after the other with the one NotificationManager of    *)
(* main; a page lists a url twice, so that a listing is created and        *)
(* updated in one run.                                                     *)
(***************************************************************************)
EnvNotify ==
    [tzs |-> {0}, hooks |-> {TRUE}, sites |-> <<"SiteA", "SiteB">>,
     pages |-> {<<SummaryOf("u1"), SummaryOf("u1")>>,
                <<SummaryNoUrl, SummaryOf("u2")>>},
     nexts |-> {FALSE},
     details |-> {DetailL1, DetailL2},
     fails |-> {FALSE}, http |-> HttpOutcomes, stop |-> TRUE,
     modes |-> {"all"}]

SpecNotify == InitIn(EnvNotify) /\ [][NextIn(EnvNotify)]_vars

\* C17: any two notifications the webhook accepted were sent at least
\* MIN_NOTIFICATION_INTERVAL apart, whichever scrapers produced them, and
\* the one last_notification_time is the time of the latest of them.
C17_RateLimitShared ==
    /\ \A i, j \in DOMAIN delivered :
          i < j => delivered[j].at - delivered[i].at
                     >= MIN_NOTIFICATION_INTERVAL * TicksPerSecond
    /\ delivered # <<>> =>
          last_sent = [set |-> TRUE, at |-> delivered[Len(delivered)].at]

C17_Witness ==
    /\ Len(delivered) = 2
    /\ delivered[1].embed.site = PyStr("SiteA")
    /\ delivered[2].embed.site = PyStr("SiteB")

\* how often embed e is among the items of sq
CountOf(e, sq) == Cardinality({i \in DOMAIN sq : sq[i].embed = e})

Accounted(e) == CountOf(e, enqueued) <= CountOf(e, delivered) + CountOf(e, queue)

EnvNotifyFair ==
    [tzs |-> {0}, hooks |-> {TRUE}, sites |-> <<"SiteA">>,
     pages |-> {<<SummaryOf("u1"), SummaryNoUrl, SummaryOf("u2")>>},
     nexts |-> {FALSE},
     details |-> {DetailA, DetailB},
     fails |-> {FALSE}, http |-> {"ok"}, stop |-> FALSE,
     modes |-> {"all"}]

SpecNotifyFair ==
    /\ InitIn(EnvNotifyFair)
    /\ [][NextIn(EnvNotifyFair)]_vars
    /\ WF_vars(StartScrape)
    /\ WF_vars(CrawlStep(EnvNotifyFair))

\* C19: with a webhook configured that accepts every post, the n-th
\* notification appended to the queue is eventually followed by the
\* n-th accepted post.
C19_EventuallyDelivered ==
    \A n \in 1..MaxQueue :
        [](Len(enqueued) >= n => <>(Len(delivered) >= n))

\* the run is over and a notification is still in the queue
LeftInQueue ==
    /\ pc = "done"
    /\ to_run = <<>>
    /\ queue # <<>>

\* the embeds of the items of sq that have one, in the order of sq
EmbedsOf(sq) ==
    LET kept == SelectSeq(sq, LAMBDA it : it.embed # NoEmbed)
    IN  [i \in DOMAIN kept |-> kept[i].embed]

\* the call of send_notification in the latest iteration posted and the
\* post failed
NotifyPostFailed ==
    /\ last.kind \in {"insert", "update"}
    /\ Len(last.call.posts) = 1
    /\ ~last.call.posts[1].ok

\* C21: the embeds the webhook accepted, followed by the embeds still in
\* the queue, are the embeds appended to the queue in the order of their
\* appending, failed posts or not; an item is appended in the iteration
\* of the listing it is about, so that order is the order of processing.
C21_Fifo ==
    /\ EmbedsOf(delivered) \o EmbedsOf(queue) = EmbedsOf(enqueued)
    /\ (/\ last.kind \in {"insert", "update"}
        /\ last.enq # <<>>
        /\ enqueued # <<>>
        /\ processed # <<>>) =>
          /\ enqueued[Len(enqueued)] = last.enq[1]
          /\ last.enq[1].embed # NoEmbed =>
                last.enq[1].embed.url = processed[Len(processed)]

\* the post of the first item failed; the next call posted it, and the
\* second item waits behind it
C21_Witness ==
    /\ Len(delivered) = 1
    /\ Len(EmbedsOf(queue)) = 1
    /\ Len(enqueued) = 2
    /\ delivered[1].embed.url # queue[1].embed.url
    /\ last.call.sent0 = NoTime
    /\ last.call.posts = <<[embed |-> delivered[1].embed, ok |-> TRUE]>>

(***************************************************************************)
(* SpecDisabled: the program without webhook url; the page lists a url     *)
(* twice, so that listings are created and updated.                        *)
(***************************************************************************)
EnvDisabled ==
    [tzs |-> {0}, hooks |-> {FALSE}, sites |-> <<"SiteA", "SiteB">>,
     pages |-> {<<SummaryOf("u1"), SummaryNoUrl, SummaryOf("u1")>>},
     nexts |-> {FALSE},
     details |-> {DetailA, DetailB},
     fails |-> {FALSE}, http |-> HttpOutcomes, stop |-> TRUE,
     modes |-> {"all"}]

SpecDisabled == InitIn(EnvDisabled) /\ [][NextIn(EnvDisabled)]_vars

\* C22: without webhook url nothing is ever appended to the queue, the
\* queue is empty, last_notification_time is None, and no call of
\* send_notification has posted anything.
C22_DisabledNoOp ==
    ~webhook_url =>
        /\ queue = <<>>
        /\ enqueued = <<>>
        /\ last_sent = NoTime
        /\ delivered = <<>>
        /\ last.enq = <<>>
        /\ last.call.posts = <<>>

\* a listing was created and then updated with a change of a tracked field
C22_Witness ==
    /\ ~webhook_url
    /\ last.kind = "update"
    /\ last.changes # <<>>
    /\ news # {}

\* the latest iteration reconciled a candidate
Reconciled == last.kind \in {"insert", "update"}

\* the stored and the new value of a tracked field are different values,
\* not two writings of one number
TrackedFieldDiffers ==
    \E f \in TrackedFields :
        /\ FieldDiffers(f)
        /\ ~SameNumber(last.before[f], Get(last.data, f))

\* C23: with a webhook configured, the iteration of a candidate appends
\* at most one item: one 'New' item when the url was not in the table at
\* the lookup, one item of the update branch when it was and a tracked
\* field differs, none when it was and no tracked field differs.
C23_OneNotifyPerCandidate ==
    (Reconciled /\ webhook_url) =>
        /\ Len(last.enq) <= 1
        /\ last.kind = "insert" =>
              /\ Len(last.enq) = 1
              /\ last.enq[1].embed.kind = "New"
        /\ (last.kind = "update" /\ TrackedFieldDiffers) =>
              /\ Len(last.enq) = 1
              /\ last.enq[1].embed.kind # "New"
        /\ (last.kind = "update" /\ ~TrackedFieldDiffers) =>
              last.enq = <<>>

\* what holds instead: the update branch appends one item exactly when
\* the comparison of line 171 reports a tracked field, and the insert
\* branch always appends one 'New' item
NotifyFollowsComparison ==
    (Reconciled /\ webhook_url) =>
        /\ Len(last.enq) <= 1
        /\ last.kind = "insert" =>
              /\ Len(last.enq) = 1
              /\ last.enq[1].embed.kind = "New"
        /\ last.kind = "update" =>
              /\ (last.changes # <<>>) = (Len(last.enq) = 1)
              /\ (last.changes # <<>>) =
                    (\E f \in TrackedFields : FieldDiffers(f))
              /\ last.enq # <<>> => last.enq[1].embed.kind # "New"

\* the update branch found changes of tracked fields and appended an
\* 'Updated' item whose embed lists exactly the entries of
\* changes_for_notification
UpdatedItemCarriesChanges ==
    (last.kind = "update" /\ last.changes # <<>> /\ webhook_url) =>
        /\ Len(last.enq) = 1
        /\ last.enq[1].embed.kind = "Updated"
        /\ last.enq[1].embed.url = last.url
        /\ last.enq[1].embed.changes = last.changes

HasUpdated(sq) == \E i \in DOMAIN sq : sq[i].embed.kind = "Updated"

\* C24: an update that finds changes of tracked fields appends an
\* 'Updated' item that carries exactly these changes, and with a webhook
\* that accepts every post an 'Updated' item in the queue is eventually
\* followed by an accepted post of an 'Updated' embed.
C24_UpdatedNotified ==
    /\ []UpdatedItemCarriesChanges
    /\ [](HasUpdated(queue) => <>HasUpdated(delivered))

(***************************************************************************)
(* An exception escapes scrape (get_listing_by_url on a locked database,   *)
(* a parser that raises: neither is caught in scrape).  The loop over the  *)
(* scrapers catches it and goes on (src/scrapers/main.py:98-105,           *)
(* src/main.py:133-141); the call for a single scraper is not inside a     *)
(* try (src/main.py:157) and the exception ends the process.               *)
(***************************************************************************)
ScrapeRaises ==
    /\ pc \in {"page", "items"}
    /\ pc' = IF mode = "single" THEN "crashed" ELSE "done"
    /\ summaries' = <<>>
    /\ last' = [NoLast EXCEPT !.kind = "raise"]
    /\ UNCHANGED <<clock, tz, mode, listings, to_run, site, page, has_next,
                   processed, webhook_url, queue, last_sent, requested,
                   fetched, handled, news, delivered, enqueued, merge,
                   other>>

EnvMain ==
    [tzs |-> {0}, hooks |-> {TRUE}, sites |-> <<"SiteA", "SiteB">>,
     pages |-> {<<SummaryOf("u1"), SummaryNoUrl, SummaryOf("u2")>>},
     nexts |-> BOOLEAN,
     details |-> {DetailA},
     fails |-> {FALSE}, http |-> {"ok"}, stop |-> TRUE,
     modes |-> {"all", "single"}]

SpecMain == InitIn(EnvMain) /\ [][NextIn(EnvMain) \/ ScrapeRaises]_vars

\* the crawl of a scraper fails in this step: the fetch of a listing page
\* returns nothing, or an exception escapes scrape
SourceFailed ==
    \/ pc = "page" /\ pc' = "done"
    \/ ScrapeRaises

Contained ==
    /\ pc' = "done"
    /\ to_run' = to_run
    /\ listings' = listings
    /\ queue' = queue
    /\ delivered' = delivered
    /\ last_sent' = last_sent

\* C25: a failed crawl of one scraper ends the crawl of that scraper
\* only: main goes on (the scrapers still to run are run), the table and
\* the queue keep what was written, and the process is not ended, whether
\* main runs all scrapers or a single one.
C25_FailureEndsOnlySource == [][SourceFailed => Contained]_vars

\* what holds instead: the same for every failure but an exception in
\* the run of a single scraper
FailureContainedInLoop ==
    [][(SourceFailed /\ ~(mode = "single" /\ ScrapeRaises))
          => Contained]_vars

\* a step of a crawl: a page requested, a summary taken from the page, a
\* row written or added, an item appended to the queue
CrawlEffect ==
    \/ Len(requested') > Len(requested)
    \/ handled' = handled + 1
    \/ listings' # listings
    \/ Len(enqueued') > Len(enqueued)

\* C26: the scraper changes only when the crawl before it is over, every
\* step of a crawl belongs to the scraper that is running (a new row and a
\* 'New' item carry its name), pages are requested one after the other
\* and each iteration takes the first of the summaries still to process.
C26_OneAfterAnother ==
    [][/\ site' # site =>
             /\ pc \in {"idle", "done"}
             /\ summaries = <<>>
       /\ CrawlEffect =>
             /\ site' = site
             /\ pc \in {"page", "items"}
       /\ Len(requested') > Len(requested) =>
             requested' = Append(requested, Len(requested) + 1)
       /\ handled' = handled + 1 =>
             /\ summaries # <<>>
             /\ summaries' = Tail(summaries)
             /\ last'.kind # "nourl" =>
                   last'.url = Get(Head(summaries), "url")
       /\ Len(listings') > Len(listings) =>
             listings'[Len(listings')].site_name = PyStr(site)
       /\ (Len(enqueued') > Len(enqueued)
             /\ enqueued'[Len(enqueued')].embed # NoEmbed) =>
             enqueued'[Len(enqueued')].embed.site = PyStr(site)]_vars

\* the second scraper writes after the crawl of the first one
C26_Witness ==
    /\ site = "SiteB"
    /\ pc = "items"
    /\ last.kind = "insert"
    /\ Len(listings) = 2
    /\ listings[1].site_name = PyStr("SiteA")
    /\ listings[2].site_name = PyStr("SiteB")

\* an iteration whose add_listing or update_listing raised inside the
\* database call
WriteFailedStep ==
    /\ handled' = handled + 1
    /\ last'.kind \in {"insert", "update"}
    /\ last'.fails

\* C27: when the write of a candidate fails, the table stays as it was,
\* nothing is appended to the queue or sent for the candidate, it is not
\* among the records the crawl returns, the loop goes on with the next
\* summary, and a later crawl of the url takes the same branch again.
C27_WriteFailureContained ==
    [][WriteFailedStep =>
         /\ listings' = listings
         /\ enqueued' = enqueued
         /\ queue' = queue
         /\ delivered' = delivered
         /\ processed' = processed
         /\ summaries' = Tail(summaries)
         /\ pc' = "items"]_vars

\* what holds instead: the table stays as it was and the loop goes on
WriteFailureKeepsTable ==
    [][WriteFailedStep =>
         /\ listings' = listings
         /\ summaries' = Tail(summaries)
         /\ pc' = "items"]_vars

\* main starts: a new process with a new NotificationManager
NewRun == to_run = <<>> /\ to_run' # <<>>

\* C28: within a run the queue and last_notification_time change, and a
\* post is accepted, only in a step that appends an item (a call of
\* send_notification); such a step appends one item and never leaves the
\* queue shorter than it was, so a queue that is not empty stays so for
\* the rest of the run, and what is in the queue after the last call of
\* send_notification is never posted.
C28_DrainOnlyInNotify ==
    [][~NewRun =>
         /\ (queue' # queue \/ delivered' # delivered
               \/ last_sent' # last_sent) =>
                 Len(enqueued') = Len(enqueued) + 1
         /\ Len(enqueued') \in {Len(enqueued), Len(enqueued) + 1}
         /\ Len(queue') >= Len(queue)
         /\ Len(queue') <= Len(queue) + 1
         /\ queue # <<>> => queue' # <<>>]_vars

\* the run is over: one notification was accepted, the next one was held
\* back and is still in the queue
C28_Witness ==
    /\ pc = "done"
    /\ to_run = <<>>
    /\ Len(delivered) = 1
    /\ Len(queue) = 1
    /\ Len(enqueued) = 2

\* the latest iteration called send_notification with a webhook url, so
\* _process_queue ran, and main has not been started anew since
NotifyCalled == Reconciled /\ last.call.drained /\ enqueued # <<>>

\* an item without message_content and without embed
EmptyItem == [has_content |-> FALSE, embed |-> NoEmbed]

\* every entry of the change list has two equal texts
AllTextsEqual(changes) ==
    \A i \in DOMAIN changes : changes[i][2] = changes[i][3]

\* C29: an update whose change entries all show equal texts appends an
\* item without payload; when _process_queue passes the rate limit with
\* such an item at the head, the item is removed and nothing else
\* happens: no post, no re-insertion, last_notification_time unchanged.
C29_EmptyItemDiscarded ==
    /\ (NotifyCalled /\ last.kind = "update"
          /\ AllTextsEqual(last.changes)) => last.enq = <<EmptyItem>>
    /\ (NotifyCalled /\ Head(last.call.queue0) = EmptyItem
          /\ ~CalledTooEarly) =>
           /\ queue = Tail(last.call.queue0)
           /\ last.call.posts = <<>>
           /\ last_sent = last.call.sent0

\* the item without payload was held back by the rate limit; a later
\* call removes it and leaves the item appended after it
C29_Witness ==
    /\ NotifyCalled
    /\ ~CalledTooEarly
    /\ Len(last.call.queue0) = 2
    /\ Head(last.call.queue0) = EmptyItem
    /\ queue = Tail(last.call.queue0)
    /\ queue[1].embed # NoEmbed

\* C30: the column site_name of a row is the site_name of the candidate
\* that was inserted; no update and no last_checked touch of the url
\* changes it, whichever scraper the later candidate comes from.
C30_SourceNameFixed ==
    /\ Inserted => Row(last.url).site_name = Get(last.data, "site_name")
    /\ last.kind \in {"update", "touch"} =>
          Row(last.url).site_name = last.before.site_name

\* a listing created by the first scraper is updated by the second
C30_Witness ==
    /\ Updated
    /\ Get(last.data, "site_name") = PyStr("SiteB")
    /\ last.before.site_name = PyStr("SiteA")
    /\ Row(last.url).site_name = PyStr("SiteA")
    /\ Row(last.url).last_updated > last.before.last_updated

====
